---- MODULE Spec2Model ----
(***************************************************************************)
(* Model of the deep paging client of es-deep-pager                        *)
(* (rust/es_deep_pager/src/deep_page_client.rs).                           *)
(*                                                                         *)
(* Client::search is an async fn; its suspension points are the awaited    *)
(* sub-requests (_count and _search posts).  One action of the model is    *)
(* the code that runs from the arrival of one response up to the next      *)
(* post (or up to the return).  Every call has its own frame st[c] (the    *)
(* locals of search and find_new_from) and the list sent[c] of the         *)
(* request bodies it has posted.  The cluster is a static index of         *)
(* documents with integer sort keys; a hit is represented by its sort key  *)
(* (field list) and the document it is by its rank in the index (field     *)
(* ids).  The source filter (_source) does not influence control flow and  *)
(* is left out of the request bodies.                                      *)
(***************************************************************************)
EXTENDS Integers, Sequences, FiniteSets, TLC

VARIABLES
    index,    \* the static index the cluster serves
    flaky,    \* may the cluster answer with failures and malformed bodies?
    st,       \* st[c]: the frame of call c
    sent,     \* sent[c]: the request bodies call c has posted, in order
    faults,   \* faults[c]: the kinds of the non-ok responses call c received
    build,    \* the build profile: "debug" checks integer overflow, "release" wraps
    js        \* the JSON walker: a text, the value parsed from it, its rendering

vars == <<index, flaky, st, sent, faults, build, js>>

MAX_FROM == 2000
MAX_SIZE == 3000

\* Sizes of the seeded indexes.
NDense == 10010
NGappy == 4400
NWide == 4010
NTriples == 4500
NLumps == 5200

\* TLC's integers have 32 bits, so the i64 of the source is modelled by
\* two's complement integers of WordBits bits.
WordBits == 24

Calls == {1, 2}

I64_MIN == -(2 ^ (WordBits - 1))
I64_MAX == 2 ^ (WordBits - 1) - 1

\* the value a wrapping i64 operation yields for the mathematical result x
Wrap(x) == ((x - I64_MIN) % (2 ^ WordBits)) + I64_MIN

Min(a, b) == IF a < b THEN a ELSE b
Max(a, b) == IF a > b THEN a ELSE b
Abs(a) == IF a < 0 THEN -a ELSE a

Reverse(s) == [i \in 1..Len(s) |-> s[Len(s) + 1 - i]]

(***************************************************************************)
(* The static indexes.  Key(ix, i) is the i-th smallest sort key.          *)
(*   "empty": no document;                                                *)
(*   "dense": keys 1..NDense (the seeded index of the test properties);   *)
(*   "gappy": negative and discontinuous keys, unevenly spaced.           *)
(***************************************************************************)
Indexes == {"empty", "dense", "gappy"}

NDocs(ix) ==
    CASE ix = "empty" -> 0
      [] ix = "dense" -> NDense
      [] ix = "gappy" -> NGappy
      [] ix = "wide"  -> NWide
      [] ix = "triples" -> NTriples
      [] ix = "lumps" -> NLumps

Key(ix, i) ==
    CASE ix = "dense" -> i
      [] ix = "gappy" -> IF i <= NGappy \div 3 THEN i - 40000
                         ELSE IF i <= 2 * (NGappy \div 3) THEN 7 * i
                         ELSE 1000 * i
      [] ix = "wide"  -> IF i <= NWide \div 2 THEN I64_MIN + (i - 1)
                         ELSE I64_MAX - (NWide - i)
      [] ix = "triples" -> (i + 2) \div 3
      [] ix = "lumps" -> (i + 2499) \div 2500
      [] OTHER -> 0

(***************************************************************************)
(* Query DSL fragments.                                                    *)
(***************************************************************************)
UserQuery(text) == [op |-> "user", text |-> text]

MatchAll == "{\"match_all\":{}}"

\* search, line 134: an empty query means match_all
NormalizeQuery(query) == IF query = "" THEN UserQuery(MatchAll) ELSE UserQuery(query)

build_range_query(query, sort, start, end) ==
    [op |-> "range", must |-> query, field |-> sort, gte |-> start, lte |-> end]

build_cmp_query(query, sort, cmp, value) ==
    [op |-> "cmp", must |-> query, field |-> sort, cmp |-> cmp, value |-> value]

\* Does a document with sort key k match the query q?
RECURSIVE Matches(_, _)
Matches(k, q) ==
    CASE q.op = "user"  -> TRUE
      [] q.op = "range" -> q.gte <= k /\ k <= q.lte /\ Matches(k, q.must)
      [] q.op = "cmp"   -> /\ Matches(k, q.must)
                           /\ CASE q.cmp = "gt"  -> k > q.value
                                [] q.cmp = "gte" -> k >= q.value
                                [] q.cmp = "lt"  -> k < q.value
                                [] q.cmp = "lte" -> k <= q.value

\* Ranks (positions in ascending key order) of the matching documents.  All
\* filters are ranges of the sort key, so the ranks are contiguous.
Matching(ix, q) == {i \in 1..NDocs(ix) : Matches(Key(ix, i), q)}

\* The answer of _count.
ServerCount(ix, q) == Cardinality(Matching(ix, q))

\* The documents (ranks) a _search returns: the matching documents sorted
\* by key in the direction asc, from skipped, at most size returned.
ServerDocs(ix, q, asc, from, size) ==
    LET M     == Matching(ix, q)
        n     == Cardinality(M)
        first == IF n = 0 THEN 0 ELSE CHOOSE i \in M : (i - 1) \notin M
        last  == first + n - 1
        len   == Min(size, Max(0, n - from))
    IN  IF asc THEN [j \in 1..len |-> first + from + j - 1]
               ELSE [j \in 1..len |-> last - from - j + 1]

\* The hits of _search, each represented by its sort key.
ServerHits(ix, q, asc, from, size) ==
    LET docs == ServerDocs(ix, q, asc, from, size)
    IN  [j \in 1..Len(docs) |-> Key(ix, docs[j])]

(***************************************************************************)
(* Request bodies.                                                         *)
(***************************************************************************)
NoReq == [api |-> "none"]

\* Client::count, lines 294-297
CountReq(query) == [api |-> "_count", query |-> query]

\* Client::query, lines 223-242
SearchReq(query, sort, asc, from, size) ==
    [api |-> "_search", query |-> query, sort |-> sort, asc |-> asc,
     from |-> from, size |-> size]

(***************************************************************************)
(* The JSON walker (EsJson, EsJsonAnalyzer).  A text is a sequence of      *)
(* characters (strings of length one).  The analyzer's cursor is the       *)
(* record [position, character, panic]: position counts from 0 as in the   *)
(* source and may pass the end of the text, character is the last          *)
(* character that was loaded (goto_next_char keeps it when the text is     *)
(* exhausted), panic is set by a failed assertion or an index out of       *)
(* range; a panicked analyzer does nothing more.  The functions that       *)
(* return a value return the record [a, val]: the cursor after the call    *)
(* and the value.                                                          *)
(***************************************************************************)
Q  == "\""
BS == "\\"

Array(items)  == [shape |-> "Array", content |-> items]
Object(items) == [shape |-> "Object", content |-> items]
String(chars) == [shape |-> "String", content |-> chars]

SPACE_CHARS == {" ", "\t", "\n", "\r"}
STOP_CHARS  == {" ", "\t", "\r", "\n", ",", "]", "}"}

EsJsonAnalyzer_new(json) ==
    IF Len(json) = 0
    THEN [position |-> 0, character |-> "", panic |-> TRUE, runaway |-> FALSE]
    ELSE [position |-> 0, character |-> json[1], panic |-> FALSE, runaway |-> FALSE]

Abort(a) == [a EXCEPT !.panic = TRUE]

\* The loops of read_json_array and read_json_object go on as long as the
\* position changes, and goto_next_char increments it at the end of the text
\* too.  With the character frozen at the end of the text a round either
\* closes a container, panics or repeats itself, and only the closing
\* rounds, at most one for each '[' or '{' of the text, can precede a
\* return.  A loop that has been followed until the position is more than
\* Overrun(json) past the end of the text is not followed further: the
\* walker is marked runaway.
MaxOverrun == 2

Overrun(json) ==
    Cardinality({i \in 1..Len(json) : json[i] \in {"[", "{"}}) + MaxOverrun

Runaway(a) == [a EXCEPT !.runaway = TRUE]

Halted(a) == a.panic \/ a.runaway

goto_next_char(json, a) ==
    LET position == a.position + 1
    IN  [a EXCEPT !.position = position,
                  !.character = IF position < Len(json)
                                THEN json[position + 1] ELSE a.character]

\* what goto_next_char returned when it produced the cursor a
Loaded(json, a) == a.position < Len(json)

\* the loop of count_prev_char from prev_pos on; -1 stands for a panic
\* (the usize prev_pos - 1 below zero)
RECURSIVE count_prev_loop(_, _, _)
count_prev_loop(json, prev_pos, prev_char) ==
    IF prev_pos < 0 \/ prev_pos >= Len(json) THEN -1
    ELSE IF json[prev_pos + 1] # prev_char THEN 0
    ELSE IF prev_pos = 0 THEN -1
    ELSE IF prev_pos - 1 = 0 THEN 1
    ELSE LET rest == count_prev_loop(json, prev_pos - 1, prev_char)
         IN  IF rest < 0 THEN -1 ELSE 1 + rest

count_prev_char(json, a, prev_char) ==
    count_prev_loop(json, a.position - 1, prev_char)

RECURSIVE skip_space(_, _)
skip_space(json, a) ==
    IF Halted(a) \/ a.character \notin SPACE_CHARS THEN a
    ELSE LET b == goto_next_char(json, a)
         IN  IF ~Loaded(json, b) THEN b ELSE skip_space(json, b)

RECURSIVE read_literal_loop(_, _, _)
read_literal_loop(json, a, literal) ==
    IF a.character \in STOP_CHARS THEN [a |-> a, val |-> literal]
    ELSE LET b == goto_next_char(json, a)
             pushed == Append(literal, a.character)
         IN  IF ~Loaded(json, b) THEN [a |-> b, val |-> pushed]
             ELSE read_literal_loop(json, b, pushed)

read_json_literal(json, a) ==
    IF Halted(a) THEN [a |-> a, val |-> <<>>]
    ELSE read_literal_loop(json, a, <<>>)

RECURSIVE read_string_loop(_, _, _)
read_string_loop(json, a, string) ==
    LET b == goto_next_char(json, a)
        pushed == Append(string, b.character)
        slashes == count_prev_char(json, b, BS)
    IN  IF ~Loaded(json, b) THEN [a |-> b, val |-> string]
        ELSE IF b.character # Q THEN read_string_loop(json, b, pushed)
        ELSE IF slashes < 0 THEN [a |-> Abort(b), val |-> pushed]
        ELSE IF slashes % 2 = 0
        THEN [a |-> goto_next_char(json, b), val |-> pushed]
        ELSE read_string_loop(json, b, pushed)

read_json_string(json, a) ==
    IF Halted(a) THEN [a |-> a, val |-> <<>>]
    ELSE IF a.character # Q THEN [a |-> Abort(a), val |-> <<>>]
    ELSE read_string_loop(json, a, <<a.character>>)

RECURSIVE read_json_value(_, _)
RECURSIVE read_json_key_value(_, _)
RECURSIVE read_array_loop(_, _, _, _)
RECURSIVE read_object_loop(_, _, _, _)

read_json_array(json, a) ==
    IF Halted(a) THEN [a |-> a, val |-> <<>>]
    ELSE IF a.character # "[" THEN [a |-> Abort(a), val |-> <<>>]
    ELSE read_array_loop(json, goto_next_char(json, a), <<>>, 0)

\* one round of the loop of read_json_array
read_array_loop(json, a, ary, last_pos) ==
    IF Halted(a) THEN [a |-> a, val |-> ary]
    ELSE IF a.position > Len(json) + Overrun(json) THEN [a |-> Runaway(a), val |-> ary]
    ELSE IF a.position = last_pos THEN [a |-> Abort(a), val |-> ary]
    ELSE LET s == skip_space(json, a)
         IN  IF s.character = ","
             THEN read_array_loop(json, goto_next_char(json, s), ary, a.position)
             ELSE IF s.character = "]"
             THEN [a |-> goto_next_char(json, s), val |-> ary]
             ELSE LET v == read_json_value(json, s)
                  IN  read_array_loop(json, v.a, Append(ary, v.val), a.position)

read_json_object(json, a) ==
    IF Halted(a) THEN [a |-> a, val |-> <<>>]
    ELSE IF a.character # "{" THEN [a |-> Abort(a), val |-> <<>>]
    ELSE read_object_loop(json, goto_next_char(json, a), <<>>, 0)

\* one round of the loop of read_json_object
read_object_loop(json, a, obj, last_pos) ==
    IF Halted(a) THEN [a |-> a, val |-> obj]
    ELSE IF a.position > Len(json) + Overrun(json) THEN [a |-> Runaway(a), val |-> obj]
    ELSE IF a.position = last_pos THEN [a |-> Abort(a), val |-> obj]
    ELSE LET s == skip_space(json, a)
         IN  IF s.character = ","
             THEN read_object_loop(json, goto_next_char(json, s), obj, a.position)
             ELSE IF s.character = "}"
             THEN [a |-> goto_next_char(json, s), val |-> obj]
             ELSE LET key_value == read_json_key_value(json, s)
                  IN  IF Halted(key_value.a) THEN [a |-> key_value.a, val |-> obj]
                      ELSE read_object_loop(json, key_value.a,
                                            Append(obj, key_value.val), a.position)

read_json_value(json, a) ==
    IF Halted(a) THEN [a |-> a, val |-> String(<<>>)]
    ELSE IF a.character = Q
    THEN LET r == read_json_string(json, a) IN [a |-> r.a, val |-> String(r.val)]
    ELSE IF a.character = "{"
    THEN LET r == read_json_object(json, a) IN [a |-> r.a, val |-> Object(r.val)]
    ELSE IF a.character = "["
    THEN LET r == read_json_array(json, a) IN [a |-> r.a, val |-> Array(r.val)]
    ELSE LET r == read_json_literal(json, a) IN [a |-> r.a, val |-> String(r.val)]

read_json_key_value(json, a) ==
    LET s1  == skip_space(json, a)
        key == read_json_string(json, s1)
        s2  == skip_space(json, key.a)
        s3  == skip_space(json, goto_next_char(json, s2))
        value == read_json_value(json, s3)
    IN  IF Halted(key.a) THEN [a |-> key.a, val |-> <<>>]
        ELSE IF s2.character # ":" THEN [a |-> Abort(s2), val |-> <<>>]
        ELSE [a |-> value.a, val |-> <<key.val, value.val>>]

from_json(json) == read_json_value(json, EsJsonAnalyzer_new(json))

\* the texts of strs joined by sep (Vec<String>::join)
RECURSIVE Join(_, _)
Join(strs, sep) ==
    IF Len(strs) = 0 THEN <<>>
    ELSE IF Len(strs) = 1 THEN strs[1]
    ELSE strs[1] \o sep \o Join(Tail(strs), sep)

RECURSIVE to_json(_)
to_json(obj) ==
    IF obj.shape = "Array"
    THEN <<"[">> \o Join([i \in 1..Len(obj.content) |-> to_json(obj.content[i])], <<",">>)
             \o <<"]">>
    ELSE IF obj.shape = "Object"
    THEN <<"{">> \o Join([i \in 1..Len(obj.content) |->
                            obj.content[i][1] \o <<":">> \o to_json(obj.content[i][2])],
                        <<",">>)
             \o <<"}">>
    ELSE obj.content

\* the walker at rest
JsIdle == [pc |-> "idle", text |-> <<>>, parsed |-> String(<<>>), panic |-> FALSE,
           runaway |-> FALSE,
           out |-> <<>>]

(***************************************************************************)
(* Results of search.                                                      *)
(***************************************************************************)
NoRet == [kind |-> "none", list |-> <<>>]
Ok(list) == [kind |-> "Ok", list |-> list]
Err == [kind |-> "Err", list |-> <<>>]
\* an unwrap() on a failed parse: the thread panics, nothing is returned
Panic == [kind |-> "panic", list |-> <<>>]

(***************************************************************************)
(* Frames.                                                                 *)
(***************************************************************************)
NewFrame(arg, pc) ==
    [pc |-> pc, arg |-> arg,
     query |-> UserQuery(""), asc |-> arg.asc, from |-> arg.from, size |-> arg.size,
     reverse |-> FALSE, total |-> 0,
     sort_min |-> 0, sort_max |-> 0,
     sort_start |-> 0, sort_end |-> 0,
     new_start |-> 0, new_end |-> 0, sort_mid |-> 0, mid_count |-> 0,
     new_from |-> 0, new_query |-> UserQuery(""),
     remain_size |-> 0, retrieve_size |-> 0,
     hits |-> <<>>, list |-> <<>>, ids |-> <<>>,
     boundary |-> 0, exit |-> "none", overflow |-> FALSE,
     bad |-> "none", pending |-> NoReq, ret |-> NoRet]

Post(f, req, pc) == [f EXCEPT !.pc = pc, !.pending = req]

Return(f, ret) == [f EXCEPT !.pc = "done", !.ret = ret, !.pending = NoReq]

(***************************************************************************)
(* Responses.  A healthy cluster answers every request from the static     *)
(* index ("ok").  A flaky one may also answer with                         *)
(*   "fail":    transport failure or a status other than 200 (post);       *)
(*   "shape":   a body without the expected path (count, hits.hits);       *)
(*   "nofield": hits whose last hit lacks _source.<sort> and sort;         *)
(*   "nonint":  hits whose last hit carries a sort value that is not an    *)
(*              integer.                                                   *)
(***************************************************************************)
CountKinds == {"ok", "fail", "shape"}
SearchKinds == {"ok", "fail", "shape", "nofield", "nonint"}

Kinds(all) == IF flaky THEN all ELSE {"ok"}

(***************************************************************************)
(* Client::search, lines 186-188: the first batch.                         *)
(***************************************************************************)
\* variant: the batch size is not capped
StartBatches_nocap(f) ==
    Post([f EXCEPT !.remain_size = f.size, !.retrieve_size = f.size],
         SearchReq(f.new_query, f.arg.sort, f.asc, f.new_from, f.size),
         "await_first")

StartBatches(f) ==
    LET remain_size   == f.size
        retrieve_size == Min(f.size, MAX_SIZE)
    IN  Post([f EXCEPT !.remain_size = remain_size, !.retrieve_size = retrieve_size],
             SearchReq(f.new_query, f.arg.sort, f.asc, f.new_from, retrieve_size),
             "await_first")

(***************************************************************************)
(* Client::search, lines 159-163: entry of the offset collapse.            *)
(***************************************************************************)
AfterReversal(f) ==
    LET g == [f EXCEPT !.new_query = f.query, !.new_from = f.from]
    IN  IF g.from > MAX_FROM
        THEN Post(g, SearchReq(g.query, g.arg.sort, TRUE, 0, 1), "await_min")
        ELSE StartBatches(g)

(***************************************************************************)
(* Client::search, lines 118-142: validation, then the first request.      *)
(***************************************************************************)
\* variant: the size = 0 shortcut is taken before the validation
SearchEntry_sizefirst(f) ==
    IF f.arg.size = 0 THEN Return(f, Ok(<<>>))
    ELSE IF f.arg.index = "" \/ f.arg.sort = "" THEN Return(f, Err)
    ELSE IF f.arg.from < 0 \/ f.arg.size < 0 THEN Return(f, Err)
    ELSE LET g == [f EXCEPT !.query = NormalizeQuery(f.arg.query)]
         IN  IF g.from > MAX_FROM
             THEN Post(g, CountReq(g.query), "await_total")
             ELSE AfterReversal(g)

SearchEntry(f) ==
    IF f.arg.index = "" THEN Return(f, Err)
    ELSE IF f.arg.sort = "" THEN Return(f, Err)
    ELSE IF f.arg.from < 0 \/ f.arg.size < 0 THEN Return(f, Err)
    ELSE IF f.arg.size = 0 THEN Return(f, Ok(<<>>))
    ELSE LET g == [f EXCEPT !.query = NormalizeQuery(f.arg.query),
                            !.asc = f.arg.asc, !.from = f.arg.from,
                            !.size = f.arg.size, !.reverse = FALSE]
         IN  IF g.from > MAX_FROM
             THEN Post(g, CountReq(g.query), "await_total")
             ELSE AfterReversal(g)

(***************************************************************************)
(* Client::search, lines 142-157: the total has arrived; tail reversal.    *)
(***************************************************************************)
\* variant: the size is not shrunk when the reversed window starts before 0
TailReversal_noshrink(f, total) ==
    IF total = 0 \/ f.from > total THEN Return(f, Ok(<<>>))
    ELSE LET from2 == total - f.from - f.size
         IN  IF f.from > (total - f.from)
             THEN AfterReversal([f EXCEPT !.total = total, !.reverse = TRUE,
                                          !.asc = ~f.asc, !.from = Max(from2, 0)])
             ELSE AfterReversal([f EXCEPT !.total = total])

\* variant: a reversed window of size 0 is not returned early
TailReversal_nozero(f, total) ==
    IF total = 0 \/ f.from > total THEN Return(f, Ok(<<>>))
    ELSE LET from2 == total - f.from - f.size
             size2 == IF from2 < 0 THEN f.size + from2 ELSE f.size
         IN  IF f.from > (total - f.from)
             THEN AfterReversal([f EXCEPT !.total = total, !.reverse = TRUE,
                                          !.asc = ~f.asc, !.from = Max(from2, 0),
                                          !.size = Max(size2, 0)])
             ELSE AfterReversal([f EXCEPT !.total = total])

\* variant: the direction is never reversed
TailReversal_noreverse(f, total) ==
    IF total = 0 \/ f.from > total THEN Return(f, Ok(<<>>))
    ELSE AfterReversal([f EXCEPT !.total = total])

TailReversal(f, total) ==
    IF total = 0 \/ f.from > total THEN Return(f, Ok(<<>>))
    ELSE LET reverse == f.from > (total - f.from)
             from2   == total - f.from - f.size
             size2   == IF from2 < 0 THEN f.size + from2 ELSE f.size
         IN  IF reverse
             THEN LET g == [f EXCEPT !.total = total, !.reverse = TRUE,
                                     !.asc = ~f.asc,
                                     !.from = Max(from2, 0),
                                     !.size = Max(size2, 0)]
                  IN  IF g.size = 0 THEN Return(g, Ok(<<>>)) ELSE AfterReversal(g)
             ELSE AfterReversal([f EXCEPT !.total = total])

(***************************************************************************)
(* Client::search, lines 176-183: find_new_from has returned.              *)
(* exit names the return of find_new_from that was taken ("collapse": line  *)
(* 257, "normal": line 280); boundary is the new_start of search (line     *)
(* 176), which is not the new_start of find_new_from.                      *)
(***************************************************************************)
FindReturn(f, exit, new_start, new_from) ==
    LET cmp == IF f.asc THEN "gt" ELSE "lt"
    IN  StartBatches([f EXCEPT !.exit = exit, !.boundary = new_start, !.new_from = new_from,
                               !.new_query = build_cmp_query(f.query, f.arg.sort, cmp, new_start)])

(***************************************************************************)
(* Client::find_new_from, lines 253-267: the loop head up to the count.    *)
(***************************************************************************)
\* variant: the probe range is built as for the ascending direction only
FindLoop_ascrange(f) ==
    LET sort_min == Min(f.new_start, f.new_end)
        sort_abs == Abs(f.new_end - f.new_start)
        sort_mid == sort_min + sort_abs \div 2
        mid_query == build_range_query(f.query, f.arg.sort, f.sort_start, sort_mid)
    IN  IF sort_abs <= 1
        THEN FindReturn(f, "collapse", sort_min, sort_abs)
        ELSE Post([f EXCEPT !.sort_mid = sort_mid], CountReq(mid_query), "await_mid")

\* The subtraction, the abs and the addition are i64 operations: when the
\* mathematical result leaves the i64 range a debug build panics and a
\* release build goes on with the wrapped value.
FindLoop(f) ==
    LET sort_min == Min(f.new_start, f.new_end)
        diff     == Wrap(f.new_end - f.new_start)
        sort_abs == Wrap(Abs(diff))
        sort_mid == Wrap(sort_min + sort_abs \div 2)
        overflow == \/ diff # f.new_end - f.new_start
                    \/ sort_abs # Abs(diff)
                    \/ sort_abs > 1 /\ sort_mid # sort_min + sort_abs \div 2
        mid_query == IF f.sort_start < f.sort_end
                     THEN build_range_query(f.query, f.arg.sort, f.sort_start, sort_mid)
                     ELSE build_range_query(f.query, f.arg.sort, sort_mid, f.sort_start)
        g == [f EXCEPT !.overflow = f.overflow \/ overflow]
    IN  IF overflow /\ build = "debug" THEN Return(g, Panic)
        ELSE IF sort_abs <= 1
        THEN FindReturn(g, "collapse", sort_min, sort_abs)
        ELSE Post([g EXCEPT !.sort_mid = sort_mid], CountReq(mid_query), "await_mid")

(***************************************************************************)
(* Client::find_new_from, lines 267-280: the count of the probe arrived.   *)
(***************************************************************************)
\* variant: the boundary returned is the one before the last probe
FindStep_stale(f, mid_count) ==
    LET new_from == f.from - mid_count
        g == [f EXCEPT !.mid_count = mid_count, !.new_from = new_from]
    IN  IF new_from < 0
        THEN FindLoop([g EXCEPT !.new_end = f.sort_mid])
        ELSE IF new_from <= MAX_FROM
             THEN FindReturn(g, "normal", f.new_start, new_from)
             ELSE FindLoop([g EXCEPT !.new_start = f.sort_mid])

\* variant: the two halves are taken the wrong way round
FindStep_swapped(f, mid_count) ==
    LET new_from == f.from - mid_count
        g == [f EXCEPT !.mid_count = mid_count, !.new_from = new_from]
    IN  IF new_from < 0
        THEN FindLoop([g EXCEPT !.new_start = f.sort_mid])
        ELSE IF new_from <= MAX_FROM
             THEN FindReturn([g EXCEPT !.new_start = f.sort_mid], "normal",
                             f.sort_mid, new_from)
             ELSE FindLoop([g EXCEPT !.new_end = f.sort_mid])

FindStep(f, mid_count) ==
    LET new_from == f.from - mid_count
        g == [f EXCEPT !.mid_count = mid_count, !.new_from = new_from]
    IN  IF new_from < 0
        THEN FindLoop([g EXCEPT !.new_end = f.sort_mid])
        ELSE IF new_from <= MAX_FROM
             THEN FindReturn([g EXCEPT !.new_start = f.sort_mid], "normal",
                             f.sort_mid, new_from)
             ELSE FindLoop([g EXCEPT !.new_start = f.sort_mid])

(***************************************************************************)
(* Client::find_new_from, lines 249-252, called at lines 177-182.          *)
(***************************************************************************)
FindNewFrom(f, sort_start, sort_end) ==
    FindLoop([f EXCEPT !.sort_start = sort_start, !.sort_end = sort_end,
                       !.new_start = sort_start, !.new_end = sort_end])

(***************************************************************************)
(* Client::search, lines 214-219: unreverse and return.                    *)
(***************************************************************************)
\* variant: the list is not reversed back
Finish_noreverse(f) == Return(f, Ok(f.list))

Finish(f) ==
    Return(f, Ok(IF f.reverse THEN Reverse(f.list) ELSE f.list))

(***************************************************************************)
(* Client::search, lines 196-205: the head of the cursor loop.  kind is    *)
(* the kind of the response that delivered f.hits.                         *)
(***************************************************************************)
\* variant: the cursor filter wraps the query of the previous request
BatchLoop_nested(f, kind) ==
    IF f.remain_size > 0
    THEN LET new_query == build_cmp_query(f.new_query, f.arg.sort,
                                          IF f.asc THEN "gt" ELSE "lt", f.hits[Len(f.hits)])
             retrieve_size == Min(f.remain_size, MAX_SIZE)
         IN  Post([f EXCEPT !.new_query = new_query, !.retrieve_size = retrieve_size],
                  SearchReq(new_query, f.arg.sort, f.asc, 0, retrieve_size),
                  "await_next")
    ELSE Finish(f)

\* variant: the cursor filter is not strict
BatchLoop_gte(f, kind) ==
    IF f.remain_size > 0
    THEN LET new_query == build_cmp_query(f.query, f.arg.sort,
                                          IF f.asc THEN "gte" ELSE "lte", f.hits[Len(f.hits)])
             retrieve_size == Min(f.remain_size, MAX_SIZE)
         IN  Post([f EXCEPT !.new_query = new_query, !.retrieve_size = retrieve_size],
                  SearchReq(new_query, f.arg.sort, f.asc, 0, retrieve_size),
                  "await_next")
    ELSE Finish(f)

BatchLoop(f, kind) ==
    IF f.remain_size > 0
    THEN IF kind = "nofield" THEN Return([f EXCEPT !.bad = kind], Err)
         ELSE IF kind = "nonint" THEN Return([f EXCEPT !.bad = kind], Panic)
         ELSE LET last_sort == f.hits[Len(f.hits)]
                  cmp == IF f.asc THEN "gt" ELSE "lt"
                  new_query == build_cmp_query(f.query, f.arg.sort, cmp, last_sort)
                  retrieve_size == Min(f.remain_size, MAX_SIZE)
              IN  Post([f EXCEPT !.new_query = new_query, !.retrieve_size = retrieve_size],
                       SearchReq(new_query, f.arg.sort, f.asc, 0, retrieve_size),
                       "await_next")
    ELSE Finish(f)

(***************************************************************************)
(* Client::search, lines 163-168 and 169-174: the extremum item of a       *)
(* probe.  Either the call ends (field f is its last frame) or the sort    *)
(* key of the item is parsed (field key).                                  *)
(***************************************************************************)
Extremum(f, kind, hits) ==
    IF kind = "shape" THEN [end |-> TRUE, f |-> Return(f, Err), key |-> 0]
    ELSE IF Len(hits) = 0 THEN [end |-> TRUE, f |-> Return(f, Ok(<<>>)), key |-> 0]
    ELSE IF kind = "nofield"
         THEN [end |-> TRUE, f |-> Return([f EXCEPT !.bad = kind], Err), key |-> 0]
    ELSE IF kind = "nonint"
         THEN [end |-> TRUE, f |-> Return([f EXCEPT !.bad = kind], Panic), key |-> 0]
    ELSE [end |-> FALSE, f |-> f, key |-> hits[Len(hits)]]

\* the total of Phase A arrives (line 142; Client::count, lines 297-303)
OnTotal(f, kind) ==
    IF kind = "shape" THEN Return(f, Err)
    ELSE TailReversal(f, ServerCount(index, f.pending.query))

\* the smallest item arrives (lines 163-169)
OnMin(f, kind) ==
    LET p == f.pending
        e == Extremum(f, kind, ServerHits(index, p.query, p.asc, p.from, p.size))
        g == [f EXCEPT !.sort_min = e.key]
    IN  IF e.end THEN e.f
        ELSE Post(g, SearchReq(g.query, g.arg.sort, FALSE, 0, 1), "await_max")

\* the largest item arrives (lines 169-183)
OnMax(f, kind) ==
    LET p == f.pending
        e == Extremum(f, kind, ServerHits(index, p.query, p.asc, p.from, p.size))
        g == [f EXCEPT !.sort_max = e.key]
    IN  IF e.end THEN e.f
        ELSE IF g.asc THEN FindNewFrom(g, g.sort_min, g.sort_max)
                      ELSE FindNewFrom(g, g.sort_max, g.sort_min)

\* the count of a binary search probe arrives (line 267)
OnMid(f, kind) ==
    IF kind = "shape" THEN Return(f, Err)
    ELSE FindStep(f, ServerCount(index, f.pending.query))

\* the first batch arrives (lines 188-196)
OnFirst(f, kind) ==
    LET p == f.pending
        hits == ServerHits(index, p.query, p.asc, p.from, p.size)
    IN  IF kind = "shape" THEN Return(f, Err)
        ELSE IF Len(hits) = 0 THEN Return(f, Ok(<<>>))
        ELSE BatchLoop([f EXCEPT !.hits = hits, !.list = hits,
                                 !.ids = ServerDocs(index, p.query, p.asc, p.from, p.size),
                                 !.remain_size = f.remain_size - Len(hits)],
                       kind)

\* a later batch arrives (lines 205-212)
OnNext(f, kind) ==
    LET p == f.pending
        hits == ServerHits(index, p.query, p.asc, p.from, p.size)
    IN  IF kind = "shape" THEN Return(f, Err)
        ELSE IF Len(hits) = 0 THEN Finish([f EXCEPT !.hits = hits])
        ELSE BatchLoop([f EXCEPT !.hits = hits, !.list = f.list \o hits,
                                 !.ids = f.ids \o ServerDocs(index, p.query, p.asc,
                                                              p.from, p.size),
                                 !.remain_size = f.remain_size - Len(hits)],
                       kind)

\* Client::post, lines 307-331, and the ? of its callers: a failed
\* sub-request ends the call with Err.
\* variant: a failure ends the call with the hits accumulated so far
OnResponse_partial(f, kind, g) == IF kind = "fail" THEN Return(f, Ok(f.list)) ELSE g

OnResponse(f, kind, g) == IF kind = "fail" THEN Return(f, Err) ELSE g

(***************************************************************************)
(* Actions.  The locals of search live in the frame of the call (lines     *)
(* 135-140, 160-161, 186-193); Client holds the transport only (line 54).  *)
(***************************************************************************)
\* variant: the cursor state is kept in the client, shared by its calls
Frame_shared(c) ==
    [st[c] EXCEPT !.new_query = st[1].new_query, !.new_from = st[1].new_from,
                  !.remain_size = st[1].remain_size, !.list = st[1].list]

Frame(c) == st[c]

\* call c moves to the frame g; the request g posts, if any, is recorded
Step(c, g, kind) ==
    /\ st' = [st EXCEPT ![c] = g]
    /\ sent' = [sent EXCEPT ![c] = IF g.pc = "done" THEN @ ELSE Append(@, g.pending)]
    /\ faults' = [faults EXCEPT ![c] = IF kind = "ok" THEN @ ELSE @ \cup {kind}]
    /\ UNCHANGED <<index, flaky, build, js>>

Search(c) ==
    /\ st[c].pc = "start"
    /\ Step(c, SearchEntry(Frame(c)), "ok")

RecvTotal(c) ==
    /\ st[c].pc = "await_total"
    /\ \E kind \in Kinds(CountKinds) :
          Step(c, OnResponse(Frame(c), kind, OnTotal(Frame(c), kind)), kind)

RecvMin(c) ==
    /\ st[c].pc = "await_min"
    /\ \E kind \in Kinds(SearchKinds) :
          Step(c, OnResponse(Frame(c), kind, OnMin(Frame(c), kind)), kind)

RecvMax(c) ==
    /\ st[c].pc = "await_max"
    /\ \E kind \in Kinds(SearchKinds) :
          Step(c, OnResponse(Frame(c), kind, OnMax(Frame(c), kind)), kind)

RecvMid(c) ==
    /\ st[c].pc = "await_mid"
    /\ \E kind \in Kinds(CountKinds) :
          Step(c, OnResponse(Frame(c), kind, OnMid(Frame(c), kind)), kind)

RecvFirst(c) ==
    /\ st[c].pc = "await_first"
    /\ \E kind \in Kinds(SearchKinds) :
          Step(c, OnResponse(Frame(c), kind, OnFirst(Frame(c), kind)), kind)

RecvNext(c) ==
    /\ st[c].pc = "await_next"
    /\ \E kind \in Kinds(SearchKinds) :
          Step(c, OnResponse(Frame(c), kind, OnNext(Frame(c), kind)), kind)

(***************************************************************************)
(* The calls that are made.                                                *)
(***************************************************************************)
Froms(n) == {-1, 0, 1, MAX_FROM, MAX_FROM + 1, n \div 2, n \div 2 + 1,
             n - MAX_FROM - 1, n - 1, n, n + 1,
             1 + ((n - 1) \div 2) \div 2 + MAX_FROM}

Sizes(n, from) == {-1, 0, 1, MAX_SIZE, MAX_SIZE + 1, n - from, n - from + 1,
                   n - from - MAX_FROM - 1}

\* The calls with well-formed index and sort, and the calls validation rejects.
Args(ix) ==
    LET n == NDocs(ix)
        Arg(i, q, s, a, fr, sz) ==
            [index |-> i, query |-> q, sort |-> s, asc |-> a, from |-> fr, size |-> sz]
    IN  UNION {{Arg("test_data_*", "", "id", a, fr, sz) :
                    a \in BOOLEAN, sz \in Sizes(n, fr)} : fr \in Froms(n)}
        \cup {Arg(i, MatchAll, s, TRUE, fr, sz) :
                    i \in {"", "test_data_*"}, s \in {"", "id"},
                    fr \in {-1, MAX_FROM + 1}, sz \in {-1, 0, 1}}

\* The keys of the seeded indexes stay far from the i64 limits, so the build
\* profile makes no difference for these calls.
Init ==
    /\ index \in Indexes
    /\ flaky = TRUE
    /\ build = "release"
    /\ \E arg \in Args(index) :
          st = [c \in Calls |-> NewFrame(arg, IF c = 1 THEN "start" ELSE "off")]
    /\ sent = [c \in Calls |-> <<>>]
    /\ faults = [c \in Calls |-> {}]
    /\ js = JsIdle

Next ==
    \E c \in Calls :
        \/ Search(c)
        \/ RecvTotal(c)
        \/ RecvMin(c)
        \/ RecvMax(c)
        \/ RecvMid(c)
        \/ RecvFirst(c)
        \/ RecvNext(c)

\* Two calls on the same client against a healthy cluster; their
\* sub-requests interleave in any order (Next).
ConcArgs(ix) ==
    LET n == NDocs(ix)
        Arg(a, fr, sz) ==
            [index |-> "test_data_*", query |-> "", sort |-> "id",
             asc |-> a, from |-> fr, size |-> sz]
    IN  {Arg(TRUE, 0, 1), Arg(TRUE, MAX_FROM + 1, MAX_SIZE + 1),
         Arg(FALSE, n \div 2 + 1, 2), Arg(TRUE, n - 1, MAX_SIZE)}

InitConc ==
    /\ index \in {"dense", "gappy"}
    /\ flaky = FALSE
    /\ build = "release"
    /\ \E arg1 \in ConcArgs(index), arg2 \in ConcArgs(index) :
          st = [c \in Calls |-> NewFrame(IF c = 1 THEN arg1 ELSE arg2, "start")]
    /\ sent = [c \in Calls |-> <<>>]
    /\ faults = [c \in Calls |-> {}]
    /\ js = JsIdle

Spec == Init /\ [][Next]_vars

SpecConc == InitConc /\ [][Next]_vars

(***************************************************************************)
(* Calls on a healthy cluster whose index may also be "wide": unique keys  *)
(* that reach both ends of the i64 range (the doc comment of search,       *)
(* lines 85-89, allows the entire long range), in either build.            *)
(***************************************************************************)
InitWide ==
    /\ index \in Indexes \cup {"wide"}
    /\ flaky = FALSE
    /\ build \in {"debug", "release"}
    /\ \E arg \in Args(index) :
          st = [c \in Calls |-> NewFrame(arg, IF c = 1 THEN "start" ELSE "off")]
    /\ sent = [c \in Calls |-> <<>>]
    /\ faults = [c \in Calls |-> {}]
    /\ js = JsIdle

SpecWide == InitWide /\ [][Next]_vars

(***************************************************************************)
(* Calls on a healthy cluster with any of the seeded indexes, those with   *)
(* repeated sort keys included: "triples" has three documents for every key, "lumps" has      *)
(* 2500, more than MAX_FROM.                                               *)
(***************************************************************************)
InitDups ==
    /\ index \in Indexes \cup {"wide", "triples", "lumps"}
    /\ flaky = FALSE
    /\ build \in {"debug", "release"}
    /\ \E arg \in Args(index) :
          st = [c \in Calls |-> NewFrame(arg, IF c = 1 THEN "start" ELSE "off")]
    /\ sent = [c \in Calls |-> <<>>]
    /\ faults = [c \in Calls |-> {}]
    /\ js = JsIdle

SpecDups == InitDups /\ [][Next]_vars

(***************************************************************************)
(* find_new_from on its own: search is about to call it (lines 177-182)    *)
(* with extrema and an offset drawn from small sets, in either build, and  *)
(* _count may answer anything (the index may have duplicate keys or may    *)
(* change between the requests).  The answers tried are those around the   *)
(* two comparisons of lines 270 and 274.  At most MaxProbes probes of a    *)
(* call are answered.                                                      *)
(***************************************************************************)
MaxProbes == 7

FindKeys == {I64_MIN, I64_MIN + 1, -37, -2, 0, 1, 2, 6, 61, I64_MAX - 1, I64_MAX}

FindFroms == {MAX_FROM + 1, 2 * MAX_FROM + 500}

CountAnswers(f) == {0, f.from - MAX_FROM - 1, f.from - MAX_FROM, f.from, f.from + 1}

FindCall(c) ==
    /\ st[c].pc = "find_new_from"
    /\ Step(c, IF st[c].asc THEN FindNewFrom(Frame(c), st[c].sort_min, st[c].sort_max)
                            ELSE FindNewFrom(Frame(c), st[c].sort_max, st[c].sort_min),
            "ok")

FindAnswer(c) ==
    /\ st[c].pc = "await_mid"
    /\ Cardinality({i \in 1..Len(sent[c]) : sent[c][i].api = "_count"}) <= MaxProbes
    /\ \E mid_count \in CountAnswers(st[c]) :
          Step(c, FindStep(Frame(c), mid_count), "ok")

InitFind ==
    /\ index = "empty"
    /\ flaky = FALSE
    /\ build \in {"debug", "release"}
    /\ \E lo \in FindKeys, hi \in FindKeys, a \in BOOLEAN, fr \in FindFroms :
          /\ lo <= hi
          /\ st = [c \in Calls |->
                    IF c = 1
                    THEN [NewFrame([index |-> "test_data_*", query |-> "", sort |-> "id",
                                    asc |-> a, from |-> fr, size |-> 1], "find_new_from")
                          EXCEPT !.query = NormalizeQuery(""),
                                 !.sort_min = lo, !.sort_max = hi]
                    ELSE NewFrame([index |-> "test_data_*", query |-> "", sort |-> "id",
                                   asc |-> a, from |-> fr, size |-> 1], "off")]
    /\ sent = [c \in Calls |-> <<>>]
    /\ faults = [c \in Calls |-> {}]
    /\ js = JsIdle

NextFind == \E c \in Calls : FindCall(c) \/ FindAnswer(c)

SpecFind == InitFind /\ [][NextFind]_vars

(***************************************************************************)
(* The walker on its own: a response text is parsed by from_json (as       *)
(* Client::query and Client::count do) and the value is rendered back by   *)
(* to_json (as search does with every hit).  The texts are well-formed     *)
(* JSON: a value of Trees written with or without whitespace at the        *)
(* places where JSON allows it.                                            *)
(***************************************************************************)
MaxElems == 2

Literals == {<<"7">>, <<"-", "1", ".", "5">>, <<"t", "r", "u", "e">>,
             <<"n", "u", "l", "l">>}

Strings == {<<Q, Q>>, <<Q, "a", Q>>, <<Q, BS, Q, Q>>, <<Q, BS, BS, Q>>,
            <<Q, " ", ",", "]", Q>>}

JsonKeys == {<<Q, "k", Q>>, <<Q, BS, Q, " ", Q>>}

Atoms == {String(s) : s \in Literals \cup Strings}

SeqsUpTo(S, n) == UNION {[1..k -> S] : k \in 0..n}

Containers(kids) ==
    {Array(items) : items \in SeqsUpTo(kids, MaxElems)}
        \cup {Object(items) : items \in SeqsUpTo(JsonKeys \X kids, MaxElems)}

Inner == {Array(<<>>), Object(<<>>), Array(<<String(<<"7">>)>>),
          Object(<<<<<<Q, "k", Q>>, String(<<Q, "a", Q>>)>>>>),
          String(<<"7">>), String(<<Q, BS, BS, Q>>)}

Trees == Atoms \cup Containers(Atoms) \cup Containers(Inner)

\* the whitespace written before a value or key, after a value, before ':'
Styles == [pre : {<<>>, <<" ">>}, post : {<<>>, <<"\r", "\n">>},
           colon : {<<>>, <<"\t">>}]

RECURSIVE Render(_, _)
Render(v, w) ==
    IF v.shape = "Array"
    THEN IF Len(v.content) = 0 THEN <<"[">> \o w.pre \o <<"]">>
         ELSE <<"[">> \o Join([i \in 1..Len(v.content) |->
                                  w.pre \o Render(v.content[i], w) \o w.post], <<",">>)
                  \o <<"]">>
    ELSE IF v.shape = "Object"
    THEN IF Len(v.content) = 0 THEN <<"{">> \o w.pre \o <<"}">>
         ELSE <<"{">> \o Join([i \in 1..Len(v.content) |->
                                  w.pre \o v.content[i][1] \o w.colon \o <<":">>
                                      \o w.pre \o Render(v.content[i][2], w) \o w.post],
                              <<",">>)
                  \o <<"}">>
    ELSE v.content

\* the values of trees as texts
JsonTexts(trees) ==
    {lead \o Render(t, w) \o trail :
        lead \in {<<>>, <<" ">>}, trail \in {<<>>, <<"\n">>}, t \in trees, w \in Styles}

FromJson ==
    /\ js.pc = "text"
    /\ LET r == from_json(js.text)
       IN  js' = [js EXCEPT !.pc = "parsed", !.parsed = r.val, !.panic = r.a.panic,
                            !.runaway = r.a.runaway]
    /\ UNCHANGED <<index, flaky, st, sent, faults, build>>

ToJson ==
    /\ js.pc = "parsed"
    /\ ~js.panic /\ ~js.runaway
    /\ js' = [js EXCEPT !.pc = "rendered", !.out = to_json(js.parsed)]
    /\ UNCHANGED <<index, flaky, st, sent, faults, build>>

InitJson ==
    /\ index = "empty"
    /\ flaky = FALSE
    /\ build = "release"
    /\ st = [c \in Calls |->
              NewFrame([index |-> "test_data_*", query |-> "", sort |-> "id",
                        asc |-> TRUE, from |-> 0, size |-> 1], "off")]
    /\ sent = [c \in Calls |-> <<>>]
    /\ faults = [c \in Calls |-> {}]
    /\ \E text \in JsonTexts(Trees) : js = [JsIdle EXCEPT !.pc = "text", !.text = text]

NextJson == FromJson \/ ToJson

SpecJson == InitJson /\ [][NextJson]_vars

(***************************************************************************)
(* The walker on any response text: well-formed texts (the nested values   *)
(* of Trees), each of them cut off after any of its characters (a          *)
(* truncated body), and every text of up to MaxGarbage characters of       *)
(* JsonChars.                                                              *)
(***************************************************************************)
MaxGarbage == 3

JsonChars == {"[", "]", "{", "}", Q, BS, ",", ":", " ", "7"}

\* the values of trees as texts, whole and cut off, and the short texts
CutTexts(trees) ==
    UNION {{SubSeq(Render(t, w), 1, n) : n \in 1..Len(Render(t, w))} :
              t \in trees, w \in Styles}
        \cup UNION {[1..n -> JsonChars] : n \in 1..MaxGarbage}

InitCut ==
    /\ index = "empty"
    /\ flaky = FALSE
    /\ build = "release"
    /\ st = [c \in Calls |->
              NewFrame([index |-> "test_data_*", query |-> "", sort |-> "id",
                        asc |-> TRUE, from |-> 0, size |-> 1], "off")]
    /\ sent = [c \in Calls |-> <<>>]
    /\ faults = [c \in Calls |-> {}]
    /\ \E text \in CutTexts(Containers(Inner)) :
          /\ Len(text) > 0
          /\ js = [JsIdle EXCEPT !.pc = "text", !.text = text]

SpecCut == InitCut /\ [][NextJson]_vars

(***************************************************************************)
(* A call run alone on a healthy cluster: the code of search from the      *)
(* entry to the return, every request answered from the static index.      *)
(***************************************************************************)
Resume(f) ==
    CASE f.pc = "start"       -> SearchEntry(f)
      [] f.pc = "await_total" -> OnTotal(f, "ok")
      [] f.pc = "await_min"   -> OnMin(f, "ok")
      [] f.pc = "await_max"   -> OnMax(f, "ok")
      [] f.pc = "await_mid"   -> OnMid(f, "ok")
      [] f.pc = "await_first" -> OnFirst(f, "ok")
      [] f.pc = "await_next"  -> OnNext(f, "ok")

RECURSIVE RunAlone(_, _)
RunAlone(f, posted) ==
    IF f.pc = "done" THEN [ret |-> f.ret, sent |-> posted]
    ELSE LET g == Resume(f)
         IN  RunAlone(g, IF g.pc = "done" THEN posted ELSE Append(posted, g.pending))

SearchAlone(arg) == RunAlone(NewFrame(arg, "start"), <<>>)

(***************************************************************************)
(* Vocabulary of the properties.                                           *)
(***************************************************************************)
Done(c) == st[c].pc = "done"

\* call c was made and every response it received was well-formed
Healthy(c) == st[c].pc # "off" /\ faults[c] = {}

\* the arguments pass the validation of search
ValidArg(arg) == arg.index # "" /\ arg.sort # "" /\ arg.from >= 0 /\ arg.size >= 0

\* the documents of the index in the order asc
Ordered(asc) ==
    [i \in 1..NDocs(index) |->
        IF asc THEN Key(index, i) ELSE Key(index, NDocs(index) + 1 - i)]

\* the logical window (from, size) of the order asc
Window(asc, from, size) ==
    [i \in 1..Max(0, Min(size, NDocs(index) - from)) |-> Ordered(asc)[from + i]]

SearchesSent(c) == {i \in 1..Len(sent[c]) : sent[c][i].api = "_search"}
CountsSent(c) == {i \in 1..Len(sent[c]) : sent[c][i].api = "_count"}
RangeCountsSent(c) == {i \in CountsSent(c) : sent[c][i].query.op = "range"}

\* C1: window correctness.  On a static index of N documents with unique
\* keys, a call with from >= 0, size >= 1 and from + size <= N that received
\* only well-formed responses returns exactly the documents at sorted
\* positions from+1 .. from+size of the requested order.
C1_WindowCorrect ==
    \A c \in Calls :
        (/\ Done(c) /\ Healthy(c) /\ ValidArg(st[c].arg)
         /\ st[c].arg.size >= 1
         /\ st[c].arg.from + st[c].arg.size <= NDocs(index))
        => /\ st[c].ret.kind = "Ok"
           /\ Len(st[c].ret.list) = st[c].arg.size
           /\ st[c].ret.list = Window(st[c].arg.asc, st[c].arg.from, st[c].arg.size)

\* a window served through reversal, binary search and more than one batch
C1_Witness ==
    /\ Done(1) /\ Healthy(1) /\ st[1].ret.kind = "Ok"
    /\ st[1].arg.from + st[1].arg.size <= NDocs(index)
    /\ st[1].reverse
    /\ RangeCountsSent(1) # {}
    /\ st[1].arg.size > MAX_SIZE
    /\ Len(st[1].ret.list) = st[1].arg.size

\* C2: tail clipping.  If from < N < from + size the call returns exactly
\* the last N - from documents of the requested order.
C2_TailClipped ==
    \A c \in Calls :
        (/\ Done(c) /\ Healthy(c) /\ ValidArg(st[c].arg)
         /\ st[c].arg.from < NDocs(index)
         /\ NDocs(index) < st[c].arg.from + st[c].arg.size)
        => /\ st[c].ret.kind = "Ok"
           /\ Len(st[c].ret.list) = NDocs(index) - st[c].arg.from
           /\ st[c].ret.list = Window(st[c].arg.asc, st[c].arg.from, st[c].arg.size)

\* a clipped window reached without reversal: the binary search and the
\* cursor loop ran until the index was exhausted
C2_Witness ==
    /\ Done(1) /\ Healthy(1) /\ st[1].ret.kind = "Ok"
    /\ st[1].arg.from > MAX_FROM /\ ~st[1].reverse
    /\ RangeCountsSent(1) # {}
    /\ st[1].arg.from < NDocs(index)
    /\ NDocs(index) < st[1].arg.from + st[1].arg.size
    /\ Len(st[1].ret.list) = NDocs(index) - st[1].arg.from

C4_RequestedOrder ==
    \A c \in Calls :
        (Done(c) /\ Healthy(c))
        => \A i \in 1..(Len(st[c].ret.list) - 1) :
              IF st[c].arg.asc THEN st[c].ret.list[i] < st[c].ret.list[i + 1]
                               ELSE st[c].ret.list[i] > st[c].ret.list[i + 1]

\* an ascending call served in descending direction by more than one batch
C4_Witness ==
    /\ Done(1) /\ Healthy(1) /\ st[1].arg.asc /\ st[1].reverse
    /\ Len(st[1].ret.list) > MAX_SIZE

\* C5: out-of-range offset.  A valid call with size >= 1 and from > MAX_FROM
\* whose _count was answered with total = 0 or total <= from returns an
\* empty list, not an error, and posts no _search.
C5_OutOfRangeEmpty ==
    \A c \in Calls :
        (/\ ValidArg(st[c].arg) /\ st[c].arg.size >= 1
         /\ st[c].arg.from > MAX_FROM
         /\ st[c].arg.from >= NDocs(index)
         /\ st[c].pc \notin {"off", "start", "await_total"}
         /\ Healthy(c))
        => /\ Done(c)
           /\ st[c].ret = Ok(<<>>)
           /\ SearchesSent(c) = {}

\* from = total exactly, on an index that is not empty
C5_Witness ==
    /\ Done(1) /\ Healthy(1) /\ ValidArg(st[1].arg) /\ st[1].arg.size >= 1
    /\ st[1].arg.from > MAX_FROM
    /\ NDocs(index) > 0 /\ st[1].arg.from = NDocs(index)
    /\ st[1].ret = Ok(<<>>)
    /\ Len(sent[1]) = 1

\* C6: validation.  A call with an empty index, an empty sort, a negative
\* from or a negative size ends right away with an error and posts nothing,
\* also when size = 0; a valid call with size = 0 ends right away with an
\* empty list and posts nothing.
C6_Validation ==
    \A c \in Calls :
        st[c].pc \notin {"off", "start"}
        => /\ ~ValidArg(st[c].arg)
                => Done(c) /\ st[c].ret.kind = "Err" /\ sent[c] = <<>>
           /\ (ValidArg(st[c].arg) /\ st[c].arg.size = 0)
                => Done(c) /\ st[c].ret = Ok(<<>>) /\ sent[c] = <<>>

\* an empty index together with size = 0: the error wins
C6_Witness ==
    /\ Done(1) /\ st[1].arg.index = "" /\ st[1].arg.size = 0
    /\ st[1].ret.kind = "Err" /\ sent[1] = <<>>

C8_ParseErrorsSurfaced ==
    \A c \in Calls :
        st[c].bad # "none" => Done(c) /\ st[c].ret.kind = "Err"

C10_Independent ==
    \A c \in Calls :
        Done(c) => st[c].ret = SearchAlone(st[c].arg).ret

\* call 1 has returned a list of more than one batch while call 2, with
\* other parameters, is in the middle of its binary search
C10_Witness ==
    /\ Done(1) /\ Len(st[1].ret.list) > MAX_SIZE
    /\ st[2].pc = "await_mid" /\ st[2].arg # st[1].arg

\* the number of documents of the index whose key lies between a and b,
\* both included, whichever of the two is the smaller
KeysBetween(a, b) ==
    Cardinality({i \in 1..NDocs(index) :
                    Min(a, b) <= Key(index, i) /\ Key(index, i) <= Max(a, b)})

\* the text from character i on without the whitespace outside strings;
\* inside tells whether character i lies inside a string
RECURSIVE StripFrom(_, _, _)
StripFrom(text, i, inside) ==
    IF i > Len(text) THEN <<>>
    ELSE IF inside /\ text[i] = BS /\ i < Len(text)
    THEN <<text[i], text[i + 1]>> \o StripFrom(text, i + 2, TRUE)
    ELSE IF inside THEN <<text[i]>> \o StripFrom(text, i + 1, text[i] # Q)
    ELSE IF text[i] \in {" ", "\t", "\n", "\r"} THEN StripFrom(text, i + 1, FALSE)
    ELSE <<text[i]>> \o StripFrom(text, i + 1, text[i] = Q)

\* C11: JSON round trip.  For every well-formed JSON text x, from_json(x)
\* yields a value and to_json of that value is x with the whitespace outside
\* strings removed (so keys, strings and literals come back byte for byte
\* and the members of an object keep their order).
C11_RoundTrip ==
    /\ js.pc = "parsed" => ~js.panic
    /\ js.pc = "rendered" => js.out = StripFrom(js.text, 1, FALSE)

\* C12: Phase A postcondition.  Whenever Phase A ran (from > MAX_FROM) and
\* the call went on to post a further request, the effective from satisfies
\* 2 * from <= total, with and without reversal.
C12_PhaseAHalves ==
    \A c \in Calls :
        (st[c].arg.from > MAX_FROM /\ Len(sent[c]) >= 2)
        => 2 * st[c].from <= st[c].total

\* a reversed call whose effective from is still beyond MAX_FROM
C12_Witness ==
    /\ st[1].pc = "await_mid" /\ st[1].reverse
    /\ st[1].from > MAX_FROM /\ 2 * st[1].from <= st[1].total

\* C13 as stated: at the normal exit of find_new_from with boundary K and
\* offset new_from, the number c of documents with key between sort_start
\* and K inclusive satisfies from - MAX_FROM < c <= from and
\* new_from = from - c.
C13_BoundaryStrict ==
    \A c \in Calls :
        (st[c].pc = "await_first" /\ st[c].exit = "normal")
        => LET n == KeysBetween(st[c].sort_start, st[c].boundary)
           IN  /\ st[c].from - MAX_FROM < n /\ n <= st[c].from
               /\ st[c].new_from = st[c].from - n

\* C13 as amended: at the normal exit of find_new_from with boundary K and
\* offset new_from, the number c of documents with key between sort_start
\* and K inclusive satisfies from - MAX_FROM <= c <= from and
\* new_from = from - c.
C13_Boundary ==
    \A c \in Calls :
        (st[c].pc = "await_first" /\ st[c].exit = "normal")
        => LET n == KeysBetween(st[c].sort_start, st[c].boundary)
           IN  /\ st[c].from - MAX_FROM <= n /\ n <= st[c].from
               /\ st[c].new_from = st[c].from - n

\* the normal exit with exactly from - MAX_FROM documents behind the boundary
C13_Witness ==
    /\ st[1].pc = "await_first" /\ st[1].exit = "normal"
    /\ KeysBetween(st[1].sort_start, st[1].boundary) = st[1].from - MAX_FROM
    /\ st[1].new_from = MAX_FROM

\* C15: loop invariant of the binary search.  At every iteration head that
\* posts a probe, new_start and new_end lie between sort_start and sort_end,
\* new_start is not on the sort_end side of new_end, at most from documents
\* lie between sort_start and new_start, and new_end is still sort_end or
\* more than from documents lie between sort_start and new_end.
C15_LoopInvariant ==
    \A c \in Calls :
        st[c].pc = "await_mid"
        => LET f == st[c]
               lo == Min(f.sort_start, f.sort_end)
               hi == Max(f.sort_start, f.sort_end)
           IN  /\ lo <= f.new_start /\ f.new_start <= hi
               /\ lo <= f.new_end /\ f.new_end <= hi
               /\ IF f.sort_start < f.sort_end THEN f.new_start <= f.new_end
                                               ELSE f.new_start >= f.new_end
               /\ KeysBetween(f.sort_start, f.new_start) <= f.from
               /\ \/ f.new_end = f.sort_end
                  \/ KeysBetween(f.sort_start, f.new_end) > f.from

\* a descending search both of whose ends have moved
C15_Witness ==
    /\ st[1].pc = "await_mid" /\ ~st[1].asc
    /\ st[1].sort_start > st[1].sort_end
    /\ st[1].new_start # st[1].sort_start /\ st[1].new_end # st[1].sort_end

\* C17: no nested wrapping.  The query of every request a call has posted is
\* the caller's query (match_all when empty) or one range or cmp wrapper
\* around exactly that query.
C17_NoNestedWrapping ==
    \A c \in Calls :
        \A i \in 1..Len(sent[c]) :
            LET q == sent[c][i].query
                user == NormalizeQuery(st[c].arg.query)
            IN  IF q.op = "user" THEN q = user
                ELSE q.op \in {"range", "cmp"} /\ q.must.op = "user" /\ q.must = user

\* a call with an empty query, several probes of the binary search and a
\* cursor batch after the first batch
C17_Witness ==
    /\ Done(1) /\ Healthy(1) /\ st[1].arg.query = ""
    /\ Cardinality(RangeCountsSent(1)) >= 3
    /\ st[1].exit = "normal"
    /\ Len(st[1].ret.list) > MAX_SIZE

\* C18: cursor protocol.  The first batch is requested with from = new_from;
\* every later batch with from = 0, size = min(remain_size, MAX_SIZE) and a
\* strict filter on the sort key (gt in ascending, lt in descending
\* effective direction) at the sort value of the last hit received.
C18_CursorProtocol ==
    \A c \in Calls :
        LET f == st[c]
            p == f.pending
        IN  /\ f.pc = "await_first"
                => p.api = "_search" /\ p.from = f.new_from /\ p.asc = f.asc
            /\ f.pc = "await_next"
                => /\ p.api = "_search" /\ p.from = 0 /\ p.asc = f.asc
                   /\ p.size = Min(f.size - Len(f.list), MAX_SIZE)
                   /\ f.remain_size = f.size - Len(f.list)
                   /\ p.query.op = "cmp"
                   /\ p.query.cmp = (IF f.asc THEN "gt" ELSE "lt")
                   /\ p.query.value = f.list[Len(f.list)]
                   /\ p.query.field = f.arg.sort

\* a second cursor batch is pending in a reversed (descending) search that
\* went through the binary search
C18_Witness ==
    /\ st[1].pc = "await_next" /\ st[1].reverse /\ ~st[1].asc
    /\ st[1].exit = "normal"
    /\ Len(st[1].list) = MAX_SIZE

\* C14: degenerate exit.  When the interval collapses, find_new_from returns
\* its new_start as the boundary and |new_end - new_start| as new_from, in
\* the ascending and in the descending direction (stated for the calls whose
\* i64 arithmetic did not overflow).
C14_DegenerateExit ==
    \A c \in Calls :
        (st[c].exit = "collapse" /\ ~st[c].overflow)
        => /\ st[c].boundary = st[c].new_start
           /\ st[c].new_from = Abs(st[c].new_end - st[c].new_start)

\* the smallest k with 2^k >= d
RECURSIVE CeilLog2(_)
CeilLog2(d) == IF d <= 1 THEN 0 ELSE 1 + CeilLog2((d + 1) \div 2)

C20_NoOverflow ==
    \A c \in Calls :
        /\ ~st[c].overflow
        /\ st[c].pc = "await_mid"
              => /\ Min(st[c].new_start, st[c].new_end) <= st[c].sort_mid
                 /\ st[c].sort_mid <= Max(st[c].new_start, st[c].new_end)

\* C19: termination.  Whatever the server answers, a search call that has
\* finished has returned a list or an error: it never ends any other way.
C19_ReturnsListOrError ==
    \A c \in Calls : Done(c) => st[c].ret.kind \in {Ok(<<>>).kind, Err.kind}

\* C21: the degenerate exit is unreachable under the uniqueness invariant.
\* On a static index with unique sort keys, a call in which Phase B ran
\* (effective from > MAX_FROM) and that went on to its batches left
\* find_new_from through the normal exit with new_from = from - mid_count in
\* 0..MAX_FROM; it never takes the interval-collapse return and never stops
\* inside find_new_from.
C21_NoDegenerateExit ==
    \A c \in Calls :
        (Healthy(c) /\ st[c].from > MAX_FROM)
        => /\ st[c].exit # "collapse"
           /\ ~st[c].overflow
           /\ st[c].exit = "normal"
                 => /\ st[c].new_from = st[c].from - st[c].mid_count
                    /\ 0 <= st[c].new_from /\ st[c].new_from <= MAX_FROM

\* C22: no document is returned twice.  On a static index, with unique or
\* with repeated sort keys, the list a call returns has one entry for each
\* document of ids and never contains the same document more than once.
C22_NoDuplicates ==
    \A c \in Calls :
        (Done(c) /\ st[c].ret.kind = Ok(<<>>).kind /\ st[c].ret.list # <<>>)
        => /\ Len(st[c].ret.list) = Len(st[c].ids)
           /\ Cardinality({st[c].ids[i] : i \in 1..Len(st[c].ids)}) = Len(st[c].ids)

\* a call on an index with repeated keys returned more than one batch
C22_Witness ==
    /\ index \in {"triples", "lumps"}
    /\ Done(1) /\ st[1].ret.kind = Ok(<<>>).kind
    /\ Len(st[1].ret.list) > MAX_SIZE
    /\ Len(st[1].ids) = Len(st[1].ret.list)

\* C23: the JSON walker terminates on every input.  For every non-empty
\* text, truncated ones included, from_json returns a value or fails after
\* finitely many steps: its loops and its recursion never run away once the
\* cursor has reached the end of the text.
C23_WalkerTerminates ==
    js.pc \in {"parsed", "rendered"} => ~js.runaway

====
